---- MODULE Spec2Model ----
(***************************************************************************)
(* Model of wp-article-scraper: the retrying fetcher (fetch_page), the     *)
(* link extractor (parse_articles / is_valid_article_url), the pagination  *)
(* crawl loop (scrape_category) and the multi-seed driver (cli.main with   *)
(* save_data).                                                             *)
(*                                                                         *)
(* A URL string "http://<netloc><rest>" is a record [netloc, rest]; rest is *)
(* the sequence of tokens that follow the netloc, in which every "/" and   *)
(* every "#" is a token of its own, so that the substring test `keyword in *)
(* path` is a contiguous-subsequence test.  urlparse splits rest into the  *)
(* path and the fragment.  Query strings, parameters and dot segments are  *)
(* not in the vocabulary.  An HTML page is the sequence of its <a href>    *)
(* anchors.                                                                *)
(*                                                                         *)
(* Spec runs main over one to MaxSeeds seeds against a small fixed site;   *)
(* SpecCrawl runs it over a single seed against a site that can serve any  *)
(* page of up to MaxAnchors anchors; SpecExtract does the same against a   *)
(* site whose pages consist mostly of links that are not articles.         *)
(***************************************************************************)
EXTENDS Integers, Sequences, FiniteSets, TLC

(* ------------------------------ bounds --------------------------------- *)
MaxSeeds == 2      \* number of seed URLs on the command line
MaxAnchors == 2    \* anchors on one served page

(* --------------------------- program constants ------------------------- *)
retries == 3       \* fetch_page(..., retries: int = 3)
delay == 1         \* --delay, default 1.0 (seconds)

EXCLUDED_PATH_KEYWORDS ==
    { <<"/", "category", "/">>, <<"/", "tag", "/">>, <<"/", "page", "/">>,
      <<"/", "author", "/">>, <<"/", "wp-content", "/">>,
      <<"/", "wp-json", "/">>, <<"/", "wp-includes", "/">>,
      <<"/", "feed", "/">>, <<"/", "comments", "/">>, <<"#">> }

(* ------------------------------ inputs --------------------------------- *)
Url(n, p) == [netloc |-> n, rest |-> p]

\* command-line seeds: one without a trailing slash and one with two
Seeds == { Url("site", <<"/", "news">>), Url("site", <<"/", "tech", "/", "/">>) }

\* an href as written in the page: netloc "" means a relative reference
\* (whose rest does not start with two slashes); malformed marks an href on
\* which urljoin raises ValueError ("http://[").
Href(n, p) == [netloc |-> n, rest |-> p, malformed |-> FALSE]
BadHref == [netloc |-> "", rest |-> <<"[">>, malformed |-> TRUE]
Anchor(t, h) == [title |-> t, href |-> h]

\* the anchors a served page is composed of: two article URLs (the first
\* under two titles, once as a relative and once as an absolute href), a
\* foreign host, a category link, a link to the site root, a link to the
\* bare host, an article link with a fragment, a link into the page itself,
\* an anchor without text, and an href that does not parse
AnchorA == Anchor("A", Href("", <<"/", "post1">>))
AnchorB == Anchor("B", Href("site", <<"/", "post1">>))
AnchorC == Anchor("C", Href("", <<"/", "post2">>))
AnchorX == Anchor("X", Href("other", <<"/", "post1">>))
AnchorY == Anchor("Y", Href("", <<"/", "category", "/", "news">>))
AnchorR == Anchor("R", Href("", <<"/">>))
AnchorN == Anchor("N", Href("site", <<>>))
AnchorF == Anchor("F", Href("", <<"/", "post1", "#", "c">>))
AnchorG == Anchor("G", Href("", <<"#", "top">>))
AnchorE == Anchor("", Href("", <<"/", "post3">>))
AnchorZ == Anchor("Z", BadHref)
Anchors == { AnchorA, AnchorB, AnchorC, AnchorX, AnchorY, AnchorE, AnchorZ }
\* the anchors of a page of links that are mostly not articles, or that
\* carry a fragment
LinkAnchors ==
    { AnchorX, AnchorY, AnchorR, AnchorN, AnchorF, AnchorG, AnchorE, AnchorZ }

RECURSIVE SeqsUpTo(_, _)
SeqsUpTo(S, n) ==
    IF n = 0 THEN { <<>> }
    ELSE LET shorter == SeqsUpTo(S, n - 1)
         IN  shorter \cup { Append(s, x) : s \in shorter, x \in S }

\* what fetch_page returns: None, or the response text
None == [kind |-> "None"]
Text(anchors, blank) == [kind |-> "str", anchors |-> anchors, blank |-> blank]
\* response bodies the site may serve: the empty string, or a page of anchors
Bodies == { Text(<<>>, TRUE) } \cup { Text(s, FALSE) : s \in SeqsUpTo(Anchors, MaxAnchors) }
LinkBodies == { Text(s, FALSE) : s \in SeqsUpTo(LinkAnchors, MaxAnchors) }
\* a fixed small site for the runs over several seeds
Fixtures ==
    { Text(<<>>, TRUE),
      Text(<<AnchorA>>, FALSE),
      Text(<<AnchorC>>, FALSE),
      Text(<<AnchorB, AnchorC>>, FALSE),
      Text(<<AnchorX, AnchorY>>, FALSE),
      Text(<<AnchorA, AnchorZ>>, FALSE) }

Served(s) == IF s = "fixtures" THEN Fixtures ELSE IF s = "links" THEN LinkBodies ELSE Bodies

\* what one session.get attempt can end in; "exception" is any exception
\* that is not a requests.RequestException
Outcomes == { "ok", "404", "http_error", "timeout", "connection_error", "exception" }

(* ------------------------------ state ---------------------------------- *)
VARIABLES
    \* the environment
    site,           \* which pages the web site can serve: "fixtures" | "any" | "links"
    \* cli.main
    urls,           \* args.urls
    idx,            \* position of the for loop in args.urls
    all_articles,
    has_error,
    exit_code,      \* -1 while main runs, else its return value
    mpc,            \* where main is: "start" | "for" | "scraping" | "saving" |
                    \* "saved" | "fatal" | "finishing", or how it ended:
                    \* "done" (returned) | "raised" (left by KeyboardInterrupt)
    saveCalls,      \* history: the lists handed to save_data
    csv,            \* rows written to articles.csv
    csvWritten,     \* articles.csv was written
    seedLog,        \* history: per finished seed, how scrape_category ended
    crawled,        \* history: the url of every scrape_category call
    saveFailed,     \* history: writing articles.csv raised
    interruptedIn,  \* history: where main was when the user interrupted it, else ""
    \* scrape_category
    base_url,
    page,
    articles,
    seen_urls,
    html,
    cpc,            \* "idle" | "loop" | "get" | "backoff" | "got" | "delay" | "returned" | "raised"
    stopReason,     \* history: why the crawl ended
    pageLog,        \* history: parse_articles result of every parsed page
    fetched,        \* history: target_url of every fetch_page call
    delays,         \* history: the politeness sleeps of this crawl, in seconds
    \* fetch_page
    attempt,
    fetchLog        \* history: GET attempts and backoff sleeps of this call

mainVars == <<site, urls, idx, all_articles, has_error, exit_code, mpc, saveCalls, csv, csvWritten, seedLog,
              crawled, saveFailed, interruptedIn>>
crawlVars == <<base_url, page, articles, seen_urls, html, cpc, stopReason, pageLog, fetched, delays>>
fetchVars == <<attempt, fetchLog>>
vars == <<mainVars, crawlVars, fetchVars>>

(* --------------------------- pure functions ---------------------------- *)
\* 2 ** n
RECURSIVE Pow2(_)
Pow2(n) == IF n = 0 THEN 1 ELSE 2 * Pow2(n - 1)

\* variant: a wait that grows linearly (2, 4, 6)
WaitTimeLinear(a) == 2 * a
\* fetch_page: wait_time = 2 ** attempt
WaitTime(a) == Pow2(a)

\* variant: an HTTP error status is retried like a transient failure
HandleOutcomeRetryHttp(out) ==
    CASE out = "ok" -> "return_text"
      [] out = "404" -> "return_none"
      [] out \in { "timeout", "connection_error", "http_error" } -> "retry"
      [] OTHER -> "raise"
\* variant: the HTTPError of raise_for_status is not caught
HandleOutcomeUncaughtHttp(out) ==
    CASE out = "ok" -> "return_text"
      [] out = "404" -> "return_none"
      [] out \in { "timeout", "connection_error" } -> "retry"
      [] OTHER -> "raise"
\* fetch_page: what the try/except does with the outcome of session.get:
\*   status 404 -> return None; raise_for_status passes -> return text;
\*   Timeout / ConnectionError -> back off and retry;
\*   any other RequestException (HTTPError of raise_for_status) -> return None;
\*   anything that is not a RequestException propagates to the caller.
HandleOutcome(out) ==
    CASE out = "ok" -> "return_text"
      [] out = "404" -> "return_none"
      [] out \in { "timeout", "connection_error" } -> "retry"
      [] out = "http_error" -> "return_none"
      [] OTHER -> "raise"

\* str.rstrip("/") on the path tokens
RECURSIVE RStripSlash(_)
RStripSlash(p) ==
    IF p # <<>> /\ p[Len(p)] = "/" THEN RStripSlash(SubSeq(p, 1, Len(p) - 1)) ELSE p

\* variant: a slash is appended without stripping
NormalizeBaseAppend(u) == Url(u.netloc, u.rest \o <<"/">>)
\* scrape_category: base_url = url.rstrip("/") + "/"
NormalizeBase(u) == Url(u.netloc, RStripSlash(u.rest) \o <<"/">>)

\* scrape_category: target_url = base_url if page == 1 else f"{base_url}page/{page}/"
TargetUrl(b, p) ==
    IF p = 1 THEN b ELSE Url(b.netloc, b.rest \o <<"page", "/", ToString(p), "/">>)

\* the position of the first "#" of a token sequence, 0 when there is none
HashAt(p) ==
    IF \E i \in 1..Len(p) : p[i] = "#"
    THEN CHOOSE i \in 1..Len(p) : p[i] = "#" /\ \A j \in 1..(i - 1) : p[j] # "#"
    ELSE 0

\* urlparse(url): the path ends where the fragment starts, at the first "#"
UrlParse(u) ==
    LET i == HashAt(u.rest) IN
    [ netloc   |-> u.netloc,
      path     |-> IF i = 0 THEN u.rest ELSE SubSeq(u.rest, 1, i - 1),
      fragment |-> IF i = 0 THEN <<>> ELSE SubSeq(u.rest, i + 1, Len(u.rest)) ]

\* urlunparse: the URL string of its parts; an empty fragment leaves no "#"
UrlUnparse(n, path, fragment) ==
    Url(n, path \o (IF fragment = <<>> THEN <<>> ELSE <<"#">> \o fragment))

\* the directory of the base path: urljoin drops what follows the last "/"
RECURSIVE BaseDir(_)
BaseDir(p) ==
    IF p = <<>> THEN <<"/">>
    ELSE IF p[Len(p)] = "/" THEN p
    ELSE BaseDir(SubSeq(p, 1, Len(p) - 1))

\* urljoin drops the empty segments inside a path joined to the base directory
RECURSIVE Collapse(_)
Collapse(p) ==
    IF Len(p) < 2 THEN p
    ELSE IF p[1] = "/" /\ p[2] = "/" THEN Collapse(Tail(p))
    ELSE <<p[1]>> \o Collapse(Tail(p))

\* urljoin(base_url, href) for an href that parses: an empty href gives the
\* base; an href with a netloc replaces the base; an href without a path
\* (a fragment only) keeps the base path; a rooted path keeps the base
\* netloc; any other path is joined to the base directory.  The fragment is
\* always that of the href.
UrlJoin(b, h) ==
    LET bp == UrlParse(b)
        hp == UrlParse(h)
    IN  IF h.netloc = "" /\ h.rest = <<>> THEN b
        ELSE IF h.netloc # "" THEN UrlUnparse(h.netloc, hp.path, hp.fragment)
        ELSE IF hp.path = <<>> THEN UrlUnparse(b.netloc, bp.path, hp.fragment)
        ELSE IF hp.path[1] = "/" THEN UrlUnparse(b.netloc, hp.path, hp.fragment)
        ELSE UrlUnparse(b.netloc, Collapse(BaseDir(bp.path) \o hp.path), hp.fragment)

\* keyword in path
Contains(p, k) ==
    \E i \in 1..(Len(p) - Len(k) + 1) : SubSeq(p, i, i + Len(k) - 1) = k

\* variant: the domain test of lines 66-67 is missing
is_valid_article_url_AnyHost(parsed_url, base_domain) ==
    IF parsed_url.path = <<>> \/ parsed_url.path = <<"/">> THEN FALSE
    ELSE IF \E k \in EXCLUDED_PATH_KEYWORDS : Contains(parsed_url.path, k) THEN FALSE
    ELSE TRUE

\* is_valid_article_url: same domain, a path that is neither empty nor "/",
\* and no excluded keyword in the path
is_valid_article_url(parsed_url, base_domain) ==
    IF parsed_url.netloc # base_domain THEN FALSE
    ELSE IF parsed_url.path = <<>> \/ parsed_url.path = <<"/">> THEN FALSE
    ELSE IF \E k \in EXCLUDED_PATH_KEYWORDS : Contains(parsed_url.path, k) THEN FALSE
    ELSE TRUE

\* parse_articles: `if not title or not href: continue`
Skipped(a) == a.title = "" \/ (a.href.netloc = "" /\ a.href.rest = <<>>)

\* parse_articles raises when urljoin raises on an anchor it does not skip
ParseRaises(h) ==
    \E i \in 1..Len(h.anchors) : ~Skipped(h.anchors[i]) /\ h.anchors[i].href.malformed

\* the for loop of lines 91-105 over the anchors; the stored url is the
\* joined string, fragment included
RECURSIVE ParseAnchors(_, _)
ParseAnchors(as, b) ==
    IF as = <<>> THEN <<>>
    ELSE LET a == Head(as)
             full_url == UrlJoin(b, a.href)
             parsed == UrlParse(full_url)
             base_domain == UrlParse(b).netloc
         IN  IF ~Skipped(a) /\ is_valid_article_url(parsed, base_domain)
             THEN <<[title |-> a.title, url |-> full_url]>> \o ParseAnchors(Tail(as), b)
             ELSE ParseAnchors(Tail(as), b)

parse_articles(h, b) == ParseAnchors(h.anchors, b)

\* not html
Falsy(h) == IF h = None THEN TRUE ELSE h.blank

UrlSet(as) == { as[i].url : i \in 1..Len(as) }

\* variant: a loop is seen only when the page repeats every seen URL
IsLoopEqual(current_urls, seen) == current_urls = seen
\* scrape_category: current_urls.issubset(seen_urls)
IsLoop(current_urls, seen) == current_urls \subseteq seen

\* variant: every article of the page is appended, seen or not
RECURSIVE StoreAll(_, _, _)
StoreAll(arts, seen, pas) ==
    IF pas = <<>> THEN <<arts, seen>>
    ELSE StoreAll(Append(arts, Head(pas)), seen \cup { Head(pas).url }, Tail(pas))
\* variant: seen_urls.add is missing
RECURSIVE StoreNoSeen(_, _, _)
StoreNoSeen(arts, seen, pas) ==
    IF pas = <<>> THEN <<arts, seen>>
    ELSE IF Head(pas).url \notin seen
         THEN StoreNoSeen(Append(arts, Head(pas)), seen, Tail(pas))
         ELSE StoreNoSeen(arts, seen, Tail(pas))
\* variant: new articles are put in front of the list
RECURSIVE StoreFront(_, _, _)
StoreFront(arts, seen, pas) ==
    IF pas = <<>> THEN <<arts, seen>>
    ELSE IF Head(pas).url \notin seen
         THEN StoreFront(<<Head(pas)>> \o arts, seen \cup { Head(pas).url }, Tail(pas))
         ELSE StoreFront(arts, seen, Tail(pas))
\* scrape_category, lines 159-163: the pair <<articles, seen_urls>> after the
\* for loop over page_articles
RECURSIVE Store(_, _, _)
Store(arts, seen, pas) ==
    IF pas = <<>> THEN <<arts, seen>>
    ELSE IF Head(pas).url \notin seen
         THEN Store(Append(arts, Head(pas)), seen \cup { Head(pas).url }, Tail(pas))
         ELSE Store(arts, seen, Tail(pas))

\* variant: drop_duplicates(subset=["url"], keep="last")
RECURSIVE DropDuplicatesKeepLast(_)
DropDuplicatesKeepLast(rows) ==
    IF rows = <<>> THEN <<>>
    ELSE LET rest == DropDuplicatesKeepLast(Tail(rows))
         IN  IF Head(rows).url \in UrlSet(rest) THEN rest ELSE <<Head(rows)>> \o rest

\* save_data: df.drop_duplicates(subset=["url"], keep="first")
RECURSIVE DropDuplicates(_)
DropDuplicates(rows) ==
    IF rows = <<>> THEN <<>>
    ELSE LET init == DropDuplicates(SubSeq(rows, 1, Len(rows) - 1))
             last == rows[Len(rows)]
         IN  IF last.url \in UrlSet(init) THEN init ELSE Append(init, last)

\* main: return 1 if has_error and not all_articles else 0
ExitStatus(err, arts) == IF err /\ arts = <<>> THEN 1 ELSE 0

(* ------------------------------- Init ---------------------------------- *)
\* main after the arguments were parsed (cli.py lines 104-107), about to
\* create the output directory; no scrape_category call is active.
Start ==
    /\ idx = 1
    /\ all_articles = <<>>
    /\ has_error = FALSE
    /\ exit_code = -1
    /\ mpc = "start"
    /\ saveCalls = <<>>
    /\ csv = <<>>
    /\ csvWritten = FALSE
    /\ seedLog = <<>>
    /\ crawled = <<>>
    /\ saveFailed = FALSE
    /\ interruptedIn = ""
    /\ base_url = Url("", <<>>)
    /\ page = 1
    /\ articles = <<>>
    /\ seen_urls = {}
    /\ html = None
    /\ cpc = "idle"
    /\ stopReason = ""
    /\ pageLog = <<>>
    /\ fetched = <<>>
    /\ delays = <<>>
    /\ attempt = 0
    /\ fetchLog = <<>>

\* a run over one to MaxSeeds seeds against the fixture site
Init ==
    /\ urls \in (SeqsUpTo(Seeds, MaxSeeds) \ { <<>> })
    /\ site = "fixtures"
    /\ Start

\* a run over a single seed against a site that can serve any page
InitCrawl ==
    /\ urls \in { <<s>> : s \in Seeds }
    /\ site = "any"
    /\ Start

\* a run over a single seed against a site of link pages
InitExtract ==
    /\ urls \in { <<s>> : s \in Seeds }
    /\ site = "links"
    /\ Start

GetEvent(out) == [ev |-> "get", out |-> out, secs |-> 0]
SleepEvent(n) == [ev |-> "sleep", out |-> "", secs |-> n]

(* ---------------------------- fetch_page ------------------------------- *)
\* one pass of the try block (lines 37-46) with the except clause that
\* handles it, up to the sleep call of line 52
FetchGet ==
    /\ mpc = "scraping" /\ cpc = "get"
    /\ \E out \in Outcomes : \E body \in (IF out = "ok" THEN Served(site) ELSE { None }) :
         LET h == HandleOutcome(out) IN
         /\ fetchLog' = Append(fetchLog, GetEvent(out))
         /\ CASE h = "return_text" ->
                   /\ html' = body /\ cpc' = "got"
                   /\ UNCHANGED <<attempt, stopReason>>
              [] h = "return_none" ->
                   /\ html' = None /\ cpc' = "got"
                   /\ UNCHANGED <<attempt, stopReason>>
              [] h = "retry" ->
                   /\ attempt' = attempt + 1 /\ cpc' = "backoff"
                   /\ UNCHANGED <<html, stopReason>>
              [] OTHER ->
                   /\ cpc' = "raised" /\ stopReason' = "fetch_raised"
                   /\ UNCHANGED <<attempt, html>>
    /\ UNCHANGED <<mainVars, base_url, page, articles, seen_urls, pageLog, fetched, delays>>

\* time.sleep(wait_time) of line 52, then the loop test of line 36; when the
\* test fails the call returns None (lines 58-59)
FetchBackoff ==
    /\ mpc = "scraping" /\ cpc = "backoff"
    /\ fetchLog' = Append(fetchLog, SleepEvent(WaitTime(attempt)))
    /\ IF attempt < retries
       THEN cpc' = "get" /\ UNCHANGED html
       ELSE cpc' = "got" /\ html' = None
    /\ UNCHANGED <<mainVars, base_url, page, articles, seen_urls, stopReason, pageLog, fetched, delays, attempt>>

(* -------------------------- scrape_category ---------------------------- *)
\* lines 131-135: build target_url and call fetch_page (attempt = 0)
CrawlFetch ==
    /\ mpc = "scraping" /\ cpc = "loop"
    /\ fetched' = Append(fetched, TargetUrl(base_url, page))
    /\ attempt' = 0
    /\ fetchLog' = <<>>
    /\ IF 0 < retries THEN cpc' = "get" /\ UNCHANGED html
                      ELSE cpc' = "got" /\ html' = None
    /\ UNCHANGED <<mainVars, base_url, page, articles, seen_urls, stopReason, pageLog, delays>>

\* When the loop body has read html (lines 137-141) the fetch_page frame is
\* gone: the actions below forget attempt and the fetch history.  html is
\* not read again before line 135 assigns it and is forgotten at line 168.

\* variant of CrawlStopFetch that returns an empty list on a failed fetch
CrawlStopFetchEmpty ==
    /\ mpc = "scraping" /\ cpc = "got"
    /\ Falsy(html)
    /\ cpc' = "returned" /\ stopReason' = "fetch"
    /\ articles' = <<>>
    /\ UNCHANGED <<mainVars, base_url, page, seen_urls, pageLog, fetched, delays>>
    /\ html' = None /\ attempt' = 0 /\ fetchLog' = <<>>

\* lines 137-139: `if not html: break`
CrawlStopFetch ==
    /\ mpc = "scraping" /\ cpc = "got"
    /\ Falsy(html)
    /\ cpc' = "returned" /\ stopReason' = "fetch"
    /\ UNCHANGED <<mainVars, base_url, page, articles, seen_urls, pageLog, fetched, delays>>
    /\ html' = None /\ attempt' = 0 /\ fetchLog' = <<>>

\* line 141: parse_articles raises (urljoin on a malformed href)
CrawlParseError ==
    /\ mpc = "scraping" /\ cpc = "got"
    /\ ~Falsy(html) /\ ParseRaises(html)
    /\ cpc' = "raised" /\ stopReason' = "parse_raised"
    /\ UNCHANGED <<mainVars, base_url, page, articles, seen_urls, pageLog, fetched, delays>>
    /\ html' = None /\ attempt' = 0 /\ fetchLog' = <<>>

\* lines 141-145: `if not page_articles: break`
CrawlStopEmpty ==
    /\ mpc = "scraping" /\ cpc = "got"
    /\ ~Falsy(html) /\ ~ParseRaises(html)
    /\ LET page_articles == parse_articles(html, base_url) IN
         /\ page_articles = <<>>
         /\ pageLog' = Append(pageLog, page_articles)
    /\ cpc' = "returned" /\ stopReason' = "empty"
    /\ UNCHANGED <<mainVars, base_url, page, articles, seen_urls, html, fetched, delays>>
    /\ attempt' = 0 /\ fetchLog' = <<>>

\* lines 149-155: `if current_urls.issubset(seen_urls): break`
CrawlStopLoop ==
    /\ mpc = "scraping" /\ cpc = "got"
    /\ ~Falsy(html) /\ ~ParseRaises(html)
    /\ LET page_articles == parse_articles(html, base_url) IN
         /\ page_articles # <<>>
         /\ IsLoop(UrlSet(page_articles), seen_urls)
         /\ pageLog' = Append(pageLog, page_articles)
    /\ cpc' = "returned" /\ stopReason' = "loop"
    /\ UNCHANGED <<mainVars, base_url, page, articles, seen_urls, html, fetched, delays>>
    /\ attempt' = 0 /\ fetchLog' = <<>>

\* lines 157-167: store the new articles, page += 1
CrawlCollect ==
    /\ mpc = "scraping" /\ cpc = "got"
    /\ ~Falsy(html) /\ ~ParseRaises(html)
    /\ LET page_articles == parse_articles(html, base_url)
           stored == Store(articles, seen_urls, page_articles) IN
         /\ page_articles # <<>>
         /\ ~IsLoop(UrlSet(page_articles), seen_urls)
         /\ pageLog' = Append(pageLog, page_articles)
         /\ articles' = stored[1]
         /\ seen_urls' = stored[2]
    /\ page' = page + 1
    /\ attempt' = 0 /\ fetchLog' = <<>>
    /\ cpc' = "delay"
    /\ UNCHANGED <<mainVars, base_url, html, stopReason, fetched, delays>>

\* variant of CrawlDelay: the loop goes on without sleeping
CrawlDelaySkipped ==
    /\ mpc = "scraping" /\ cpc = "delay"
    /\ html' = None
    /\ cpc' = "loop"
    /\ UNCHANGED <<mainVars, base_url, page, articles, seen_urls, stopReason, pageLog, fetched, delays, fetchVars>>

\* line 168: time.sleep(delay), then back to the top of the loop
CrawlDelay ==
    /\ mpc = "scraping" /\ cpc = "delay"
    /\ delays' = Append(delays, delay)
    /\ html' = None
    /\ cpc' = "loop"
    /\ UNCHANGED <<mainVars, base_url, page, articles, seen_urls, stopReason, pageLog, fetched, fetchVars>>

(* ------------------------------ cli.main ------------------------------- *)
\* lines 110-120: create_output_dir returned the session directory;
\* all_articles = [], has_error = False
MainCreateOutputDir ==
    /\ mpc = "start"
    /\ mpc' = "for"
    /\ all_articles' = <<>>
    /\ has_error' = FALSE
    /\ UNCHANGED <<site, urls, idx, exit_code, saveCalls, csv, csvWritten, seedLog>>
    /\ UNCHANGED <<crawlVars, fetchVars>>
    /\ UNCHANGED <<crawled, saveFailed, interruptedIn>>

\* lines 110-117: create_output_dir raised (neither the session directory
\* nor the fallback directory could be made); return 1
MainOutputDirFails ==
    /\ mpc = "start"
    /\ exit_code' = 1
    /\ mpc' = "done"
    /\ UNCHANGED <<site, urls, idx, all_articles, has_error, saveCalls, csv, csvWritten, seedLog>>
    /\ UNCHANGED <<crawlVars, fetchVars>>
    /\ UNCHANGED <<crawled, saveFailed, interruptedIn>>

\* the locals of a finished scrape_category call are gone
CrawlIdle ==
    /\ base_url' = Url("", <<>>) /\ page' = 1 /\ articles' = <<>> /\ seen_urls' = {}
    /\ html' = None /\ cpc' = "idle" /\ stopReason' = "" /\ pageLog' = <<>>
    /\ fetched' = <<>> /\ delays' = <<>> /\ attempt' = 0 /\ fetchLog' = <<>>

\* variant of MainScrape: the seen-URL set is shared between the calls
MainScrapeSharedSeen ==
    /\ mpc = "for" /\ idx <= Len(urls)
    /\ mpc' = "scraping"
    /\ base_url' = NormalizeBase(urls[idx])
    /\ page' = 1
    /\ articles' = <<>>
    /\ seen_urls' = UrlSet(all_articles)
    /\ cpc' = "loop"
    /\ UNCHANGED <<site, urls, idx, all_articles, has_error, exit_code, saveCalls, csv, csvWritten, seedLog>>
    /\ UNCHANGED <<html, stopReason, pageLog, fetched, delays, fetchVars>>
    /\ crawled' = Append(crawled, urls[idx])
    /\ UNCHANGED <<saveFailed, interruptedIn>>

\* lines 123-131 and 118-127: the for loop takes the next url and calls
\* scrape_category, which starts with its own empty crawl state
MainScrape ==
    /\ mpc = "for" /\ idx <= Len(urls)
    /\ mpc' = "scraping"
    /\ base_url' = NormalizeBase(urls[idx])
    /\ page' = 1
    /\ articles' = <<>>
    /\ seen_urls' = {}
    /\ cpc' = "loop"
    /\ UNCHANGED <<site, urls, idx, all_articles, has_error, exit_code, saveCalls, csv, csvWritten, seedLog>>
    /\ UNCHANGED <<html, stopReason, pageLog, fetched, delays, fetchVars>>
    /\ crawled' = Append(crawled, urls[idx])
    /\ UNCHANGED <<saveFailed, interruptedIn>>

\* lines 133-135: scrape_category returned; all_articles.extend(articles)
MainExtend ==
    /\ mpc = "scraping" /\ cpc = "returned"
    /\ all_articles' = all_articles \o articles
    /\ seedLog' = Append(seedLog, [raised |-> FALSE, articles |-> articles])
    /\ idx' = idx + 1
    /\ mpc' = "for"
    /\ CrawlIdle
    /\ UNCHANGED <<site, urls, has_error, exit_code, saveCalls, csv, csvWritten>>
    /\ UNCHANGED <<crawled, saveFailed, interruptedIn>>

\* variant of MainSeedError: the handler leaves the for loop
MainSeedErrorAbort ==
    /\ mpc = "scraping" /\ cpc = "raised"
    /\ has_error' = TRUE
    /\ seedLog' = Append(seedLog, [raised |-> TRUE, articles |-> <<>>])
    /\ idx' = Len(urls) + 1
    /\ mpc' = "for"
    /\ CrawlIdle
    /\ UNCHANGED <<site, urls, all_articles, exit_code, saveCalls, csv, csvWritten>>
    /\ UNCHANGED <<crawled, saveFailed, interruptedIn>>

\* lines 137-141: scrape_category raised an Exception; has_error = True; continue
MainSeedError ==
    /\ mpc = "scraping" /\ cpc = "raised"
    /\ has_error' = TRUE
    /\ seedLog' = Append(seedLog, [raised |-> TRUE, articles |-> <<>>])
    /\ idx' = idx + 1
    /\ mpc' = "for"
    /\ CrawlIdle
    /\ UNCHANGED <<site, urls, all_articles, exit_code, saveCalls, csv, csvWritten>>
    /\ UNCHANGED <<crawled, saveFailed, interruptedIn>>

\* line 143: the for loop is exhausted; save_data(all_articles, ...) is called
MainCallSave ==
    /\ mpc = "for" /\ idx > Len(urls)
    /\ saveCalls' = Append(saveCalls, all_articles)
    /\ mpc' = "saving"
    /\ UNCHANGED <<site, urls, idx, all_articles, has_error, exit_code, csv, csvWritten, seedLog>>
    /\ UNCHANGED <<crawlVars, fetchVars>>
    /\ UNCHANGED <<crawled, saveFailed, interruptedIn>>

\* save_data lines 78-80 (nothing to save) or 82-94 (deduplicate and write
\* articles.csv); control is still inside save_data
SaveData ==
    /\ mpc = "saving" /\ ~saveFailed
    /\ IF all_articles = <<>>
       THEN UNCHANGED <<csv, csvWritten>>
       ELSE csv' = DropDuplicates(all_articles) /\ csvWritten' = TRUE
    /\ mpc' = "saved"
    /\ UNCHANGED <<site, urls, idx, all_articles, has_error, exit_code, saveCalls, seedLog>>
    /\ UNCHANGED <<crawlVars, fetchVars>>
    /\ UNCHANGED <<crawled, saveFailed, interruptedIn>>

\* save_data lines 96-97 and its return: main leaves the try block of lines
\* 122-143 and stands at line 152
SaveReturns ==
    /\ mpc = "saved"
    /\ mpc' = "finishing"
    /\ UNCHANGED <<site, urls, idx, all_articles, has_error, exit_code, saveCalls, csv, csvWritten, seedLog>>
    /\ UNCHANGED <<crawlVars, fetchVars>>
    /\ UNCHANGED <<crawled, saveFailed, interruptedIn>>

\* lines 152-153: return 1 if has_error and not all_articles else 0
MainReturn ==
    /\ mpc = "finishing"
    /\ exit_code' = ExitStatus(has_error, all_articles)
    /\ mpc' = "done"
    /\ UNCHANGED <<site, urls, idx, all_articles, has_error, saveCalls, csv, csvWritten, seedLog>>
    /\ UNCHANGED <<crawlVars, fetchVars>>
    /\ UNCHANGED <<crawled, saveFailed, interruptedIn>>

\* save_data lines 82-94 raise (the table cannot be built or written);
\* control enters the except clause of line 99, still inside save_data and
\* inside main's try block
SaveFails ==
    /\ mpc = "saving" /\ ~saveFailed
    /\ all_articles # <<>>
    /\ saveFailed' = TRUE
    /\ UNCHANGED <<site, urls, idx, all_articles, has_error, exit_code, mpc, saveCalls, csv, csvWritten, seedLog>>
    /\ UNCHANGED <<crawlVars, fetchVars>>
    /\ UNCHANGED <<crawled, interruptedIn>>

\* variant of SaveReraise: save_data logs the error and returns
SaveReraiseSwallowed ==
    /\ mpc = "saving" /\ saveFailed
    /\ mpc' = "saved"
    /\ UNCHANGED <<site, urls, idx, all_articles, has_error, exit_code, saveCalls, csv, csvWritten, seedLog>>
    /\ UNCHANGED <<crawlVars, fetchVars>>
    /\ UNCHANGED <<crawled, saveFailed, interruptedIn>>

\* save_data lines 100-101 log and re-raise; the error reaches main's
\* `except Exception` (line 148)
SaveReraise ==
    /\ mpc = "saving" /\ saveFailed
    /\ mpc' = "fatal"
    /\ UNCHANGED <<site, urls, idx, all_articles, has_error, exit_code, saveCalls, csv, csvWritten, seedLog>>
    /\ UNCHANGED <<crawlVars, fetchVars>>
    /\ UNCHANGED <<crawled, saveFailed, interruptedIn>>

\* lines 149-150: the handler of the fatal error returns 1
MainFatal ==
    /\ mpc = "fatal"
    /\ exit_code' = 1
    /\ mpc' = "done"
    /\ UNCHANGED <<site, urls, idx, all_articles, has_error, saveCalls, csv, csvWritten, seedLog>>
    /\ UNCHANGED <<crawlVars, fetchVars>>
    /\ UNCHANGED <<crawled, saveFailed, interruptedIn>>

\* main is inside the try block of lines 122-143, whose `except
\* KeyboardInterrupt` clause catches a user interrupt
InTry(pc) == pc \in { "for", "scraping", "saving", "saved" }

\* main has ended
Ended(pc) == pc \in { "done", "raised" }

\* variant of Interrupt: the per-seed handler of lines 137-141 also catches
\* KeyboardInterrupt
InterruptAbsorbed ==
    /\ ~Ended(mpc)
    /\ interruptedIn' = mpc
    /\ IF mpc = "scraping"
       THEN /\ has_error' = TRUE
            /\ seedLog' = Append(seedLog, [raised |-> TRUE, articles |-> <<>>])
            /\ idx' = idx + 1
            /\ mpc' = "for"
            /\ UNCHANGED exit_code
       ELSE /\ IF InTry(mpc)
               THEN exit_code' = 130 /\ mpc' = "done"
               ELSE mpc' = "raised" /\ UNCHANGED exit_code
            /\ UNCHANGED <<has_error, seedLog, idx>>
    /\ CrawlIdle
    /\ UNCHANGED <<site, urls, all_articles, saveCalls, csv, csvWritten, crawled, saveFailed>>

\* the user interrupts main (one KeyboardInterrupt in a run).  Inside the
\* try block it unwinds a running scrape_category or save_data call and
\* lines 145-147 return 130; before the try block (lines 110-120), in the
\* handler of lines 148-150 and at lines 152-153 nothing catches it and it
\* leaves main, which returns nothing
Interrupt ==
    /\ ~Ended(mpc)
    /\ IF InTry(mpc)
       THEN exit_code' = 130 /\ mpc' = "done"
       ELSE mpc' = "raised" /\ UNCHANGED exit_code
    /\ CrawlIdle
    /\ UNCHANGED <<site, urls, idx, all_articles, has_error, saveCalls, csv, csvWritten, seedLog>>
    /\ interruptedIn' = mpc
    /\ UNCHANGED <<crawled, saveFailed>>

Next ==
    \/ MainCreateOutputDir
    \/ MainOutputDirFails
    \/ FetchGet
    \/ FetchBackoff
    \/ CrawlFetch
    \/ CrawlStopFetch
    \/ CrawlParseError
    \/ CrawlStopEmpty
    \/ CrawlStopLoop
    \/ CrawlCollect
    \/ CrawlDelay
    \/ MainScrape
    \/ MainExtend
    \/ MainSeedError
    \/ MainCallSave
    \/ SaveData
    \/ SaveReturns
    \/ MainReturn
    \/ SaveFails
    \/ SaveReraise
    \/ MainFatal
    \/ Interrupt

Spec == Init /\ [][Next]_vars
SpecCrawl == InitCrawl /\ [][Next]_vars
SpecExtract == InitExtract /\ [][Next]_vars

TypeOK ==
    /\ idx \in 1..(Len(urls) + 1)
    /\ exit_code \in { -1, 0, 1, 130 }
    /\ mpc \in { "start", "for", "scraping", "saving", "saved", "fatal", "finishing",
                "done", "raised" }
    /\ exit_code # -1 <=> mpc = "done"
    /\ cpc \in { "idle", "loop", "get", "backoff", "got", "delay", "returned", "raised" }
    /\ attempt \in 0..retries

(* ------------------------ history of one crawl ------------------------- *)
Article(t, n, p) == [title |-> t, url |-> Url(n, p)]

NoDupUrls(as) == \A i, j \in 1..Len(as) : i # j => as[i].url # as[j].url

\* the articles extracted from pages 1..k, in page order
RECURSIVE Flatten(_, _)
Flatten(pl, k) == IF k = 0 THEN <<>> ELSE Flatten(pl, k - 1) \o pl[k]

\* the URLs extracted from pages 1..k
SeenThrough(pl, k) == UNION { UrlSet(pl[i]) : i \in 1..k }

FirstIndex(s, u) == CHOOSE i \in 1..Len(s) : s[i].url = u /\ \A j \in 1..(i - 1) : s[j].url # u

\* r is s with every article whose URL occurred earlier removed
IsFirstSeenOf(r, s) ==
    /\ NoDupUrls(r)
    /\ UrlSet(r) = UrlSet(s)
    /\ \A i \in 1..Len(r) : r[i] = s[FirstIndex(s, r[i].url)]
    /\ \A i, j \in 1..Len(r) : i < j => FirstIndex(s, r[i].url) < FirstIndex(s, r[j].url)

\* the pages whose articles were stored when the crawl has ended
StoredPages == IF stopReason = "fetch" THEN Len(pageLog) ELSE Len(pageLog) - 1

(* ------------------------ history of one fetch ------------------------- *)
GetIndices == { i \in 1..Len(fetchLog) : fetchLog[i].ev = "get" }
SleepIndices == { i \in 1..Len(fetchLog) : fetchLog[i].ev = "sleep" }
Transient == { "timeout", "connection_error" }
TransientIndices == { i \in GetIndices : fetchLog[i].out \in Transient }
\* the position of sleep i among the sleeps of the call
SleepRank(i) == Cardinality({ j \in SleepIndices : j <= i })

(* ------------------------------- claims -------------------------------- *)

\* C1: in every state of a crawl no URL occurs twice in the collected
\* article list, and the seen-URL set contains the URL of every collected
\* article.
C1_UniqueCollected ==
    /\ NoDupUrls(articles)
    /\ UrlSet(articles) \subseteq seen_urls

\* a second page repeated a URL of the first and only its new article was stored
C1_Witness ==
    /\ cpc = "delay"
    /\ Len(pageLog) = 2
    /\ Len(Flatten(pageLog, 2)) = 3
    /\ Len(articles) = 2

\* C2: when the URLs extracted from page N+1 are a non-empty subset of the
\* URLs seen through page N, the crawl has stopped right after page N+1: that
\* page is the last one fetched, and the collected list and the seen set are
\* what they were after page N.
C2_LoopStops ==
    \A n \in 1..(Len(pageLog) - 1) :
        LET cur == UrlSet(pageLog[n + 1]) IN
        (cur # {} /\ cur \subseteq SeenThrough(pageLog, n)) =>
            /\ Len(pageLog) = n + 1
            /\ cpc = "returned" /\ stopReason = "loop"
            /\ Len(fetched) = n + 1
            /\ page = n + 1
            /\ seen_urls = SeenThrough(pageLog, n)
            /\ IsFirstSeenOf(articles, Flatten(pageLog, n))

\* page 3 served the articles of page 1 again and the crawl stopped there
C2_Witness ==
    /\ cpc = "returned" /\ stopReason = "loop"
    /\ Len(pageLog) = 3
    /\ pageLog[3] = pageLog[1]
    /\ Len(articles) = 2

\* C3: the list a crawl returns is the concatenation of the article lists of
\* the pages before the one that ended the crawl, with every article whose URL
\* occurred earlier removed; when no URL repeats it is that concatenation.
C3_ReturnsFirstSeen ==
    cpc = "returned" =>
        LET all == Flatten(pageLog, StoredPages) IN
        /\ IsFirstSeenOf(articles, all)
        /\ NoDupUrls(all) => articles = all

\* page 1 gave post1 titled A, page 2 gave post1 titled B and post2, page 3
\* was absent: the crawl returns post1 titled A, then post2
C3_Witness ==
    /\ cpc = "returned" /\ stopReason = "fetch"
    /\ Len(pageLog) = 2
    /\ Len(pageLog[1]) = 1 /\ pageLog[1][1].title = "A"
    /\ Len(pageLog[2]) = 2 /\ pageLog[2][1].title = "B" /\ pageLog[2][2].title = "C"
    /\ Len(articles) = 2 /\ articles[1].title = "A" /\ articles[2].title = "C"

\* C4: when fetch_page returns None for page p the crawl ends without raising
\* and without another fetch, and returns the articles of pages 1..p-1 (the
\* empty list when p = 1).
C4_StopOnAbsent ==
    [][ (cpc = "got" /\ html = None /\ exit_code' # 130) =>
            /\ cpc' = "returned" /\ stopReason' = "fetch"
            /\ fetched' = fetched /\ Len(fetched) = page
            /\ articles' = articles
            /\ Len(pageLog) = page - 1
            /\ IsFirstSeenOf(articles', Flatten(pageLog, page - 1))
            /\ (page = 1 => articles' = <<>>) ]_vars

\* the fetch of page 3 was absent and the crawl returned the two articles of
\* pages 1 and 2
C4_Witness ==
    /\ cpc = "returned" /\ stopReason = "fetch"
    /\ page = 3 /\ Len(fetched) = 3
    /\ Len(articles) = 2

\* C5: in a run where the crawl of one seed raised and the crawl of another
\* seed returned articles, main returns 1 (unless it was interrupted).
C5_PartialFailureExit ==
    ( /\ mpc = "done" /\ exit_code # 130
      /\ \E i \in 1..Len(seedLog) : seedLog[i].raised
      /\ \E i \in 1..Len(seedLog) : ~seedLog[i].raised /\ seedLog[i].articles # <<>> )
    => exit_code = 1

\* C6: when main ends on a user interrupt with articles accumulated, those
\* articles were handed to save_data.
C6_InterruptSaves ==
    (mpc = "done" /\ exit_code = 130 /\ all_articles # <<>>)
    => (saveCalls # <<>> /\ saveCalls[Len(saveCalls)] = all_articles)

\* C7: a fetch_page call makes at most 3 GET attempts, every step of the call
\* extends its bounded history (so the call ends), the k-th backoff wait
\* follows a transient failure and lasts 2^k seconds (2, 4, 8), and after the
\* third transient failure and its wait the call has returned None.
C7_BoundedRetries ==
    /\ [] ( /\ Cardinality(GetIndices) <= 3
            /\ Len(fetchLog) <= 6
            /\ \A i \in SleepIndices :
                 /\ i - 1 \in TransientIndices
                 /\ fetchLog[i].secs = <<2, 4, 8>>[SleepRank(i)]
            /\ (Cardinality(TransientIndices) = 3 /\ Cardinality(SleepIndices) = 3)
                 => (cpc = "got" /\ html = None) )
    /\ [][ (cpc \in { "get", "backoff" } /\ exit_code' # 130) =>
               (Len(fetchLog') = Len(fetchLog) + 1) ]_vars

\* three transient failures in a row: waits of 2, 4 and 8 seconds, then None
C7_Witness ==
    /\ cpc = "got" /\ html = None
    /\ Cardinality(TransientIndices) = 3
    /\ Len(fetchLog) = 6
    /\ fetchLog[2].secs = 2 /\ fetchLog[4].secs = 4 /\ fetchLog[6].secs = 8

\* C8: every backoff wait of a fetch_page call is followed by another GET
\* attempt of the same call.
C8_WaitOnlyBetweenAttempts ==
    \A i \in SleepIndices :
        IF i < Len(fetchLog) THEN fetchLog[i + 1].ev = "get" ELSE cpc = "get"

\* C9: an attempt that gets HTTP 404 or another HTTP error status is the last
\* event of its fetch_page call, which has returned None: no further GET and
\* no backoff wait, however many transient failures came before.
C9_NoRetryOnHttpError ==
    \A i \in GetIndices :
        fetchLog[i].out \in { "404", "http_error" } =>
            /\ i = Len(fetchLog)
            /\ cpc = "got" /\ html = None

\* two transient failures, then an HTTP error status: None at once
C9_Witness ==
    /\ cpc = "got" /\ html = None
    /\ Len(fetchLog) = 5
    /\ fetchLog[1].out \in Transient /\ fetchLog[3].out \in Transient
    /\ fetchLog[5].out = "http_error"

\* C10: while the attempts of a fetch_page call end in success, 404, another
\* HTTP error, a timeout or a connection error, the call does not raise; what
\* it returns is None or the text of its last attempt, which succeeded.
C10_ReturnsTextOrNone ==
    /\ (cpc = "raised" /\ stopReason = "fetch_raised") =>
           \E i \in GetIndices : fetchLog[i].out = "exception"
    /\ cpc = "got" =>
           \/ html = None
           \/ /\ html \in Served(site)
              /\ fetchLog # <<>>
              /\ fetchLog[Len(fetchLog)] = GetEvent("ok")
              /\ \A i \in GetIndices : i # Len(fetchLog) => fetchLog[i].out \in Transient

\* a timeout, a connection error, then a successful attempt whose text is returned
C10_Witness ==
    /\ cpc = "got" /\ html # None
    /\ Len(fetchLog) = 5
    /\ fetchLog[1].out = "timeout" /\ fetchLog[3].out = "connection_error"
    /\ fetchLog[5].out = "ok"

(* ------------------------- history of one run -------------------------- *)
\* the articles returned for seeds 1..k, in seed order
RECURSIVE FlattenSeeds(_, _)
FlattenSeeds(sl, k) == IF k = 0 THEN <<>> ELSE FlattenSeeds(sl, k - 1) \o sl[k].articles

\* C11: when writing the table fails, save_data re-raises: nothing counts as
\* written, control is in save_data's except clause or in main's handler of
\* the fatal error or main has ended, main never returns 0, and unless the
\* user interrupts it returns 1.
C11_ExportFailureSurfaces ==
    /\ [] ( saveFailed =>
               /\ ~csvWritten
               /\ mpc \in { "saving", "fatal", "done", "raised" }
               /\ exit_code # 0
               /\ (mpc = "done" /\ interruptedIn = "") => exit_code = 1 )
    /\ [][ (saveFailed /\ interruptedIn' = "") =>
               /\ mpc = "saving" => mpc' = "fatal"
               /\ mpc = "fatal" => (mpc' = "done" /\ exit_code' = 1) ]_vars

\* every seed was crawled without error and returned articles, then the write failed
C11_Witness ==
    /\ mpc = "done" /\ interruptedIn = ""
    /\ saveFailed /\ ~has_error
    /\ all_articles # <<>>
    /\ exit_code = 1

\* C12: the exported table has one row per distinct URL of the list
\* accumulated over all seeds, each row is the first occurrence of its URL,
\* and the rows are in order of first occurrence.
C12_ExportKeepsFirst ==
    csvWritten =>
        /\ saveCalls = <<FlattenSeeds(seedLog, Len(seedLog))>>
        /\ IsFirstSeenOf(csv, saveCalls[1])

\* post1 was collected titled A under the first seed and titled B under the
\* second: the table has it once, titled A
C12_Witness ==
    /\ csvWritten
    /\ Len(seedLog) = 2
    /\ seedLog[1].articles # <<>> /\ seedLog[1].articles[1].title = "A"
    /\ seedLog[2].articles # <<>> /\ seedLog[2].articles[1].title = "B"
    /\ Len(csv) = 2 /\ csv[1].title = "A" /\ csv[2].title = "C"

(* ------------------------ the page just parsed ------------------------- *)
\* the loop body has parsed html and its articles are the last logged page
Parsed ==
    /\ cpc \in { "delay", "returned" }
    /\ pageLog # <<>>
    /\ IF html = None THEN FALSE ELSE ~html.blank

LastPage == pageLog[Len(pageLog)]

\* the seed of the running scrape_category call
CurrentSeed == crawled[Len(crawled)]

\* C13: no article extracted from any page, and so no article collected or
\* returned by the crawl, has a host other than the host of the seed URL.
C13_SameHostOnly ==
    /\ \A i \in 1..Len(pageLog) : \A j \in 1..Len(pageLog[i]) :
           pageLog[i][j].url.netloc = CurrentSeed.netloc
    /\ \A i \in 1..Len(articles) : articles[i].url.netloc = CurrentSeed.netloc
    /\ \A i \in 1..Len(seedLog) : \A j \in 1..Len(seedLog[i].articles) :
           seedLog[i].articles[j].url.netloc = urls[i].netloc
    /\ Parsed =>
           \A k \in 1..Len(html.anchors) :
               (~html.anchors[k].href.malformed
                  /\ UrlJoin(base_url, html.anchors[k].href).netloc # CurrentSeed.netloc)
               => UrlJoin(base_url, html.anchors[k].href) \notin UrlSet(LastPage)

\* a page with a link to another host and an article link: only the article
\* was extracted
C13_Witness ==
    /\ Parsed /\ cpc = "delay"
    /\ html.anchors = <<AnchorX, AnchorF>>
    /\ Len(LastPage) = 1 /\ LastPage[1].title = "F"
    /\ articles = LastPage

DeniedSubstrings ==
    { <<"/", "category", "/">>, <<"/", "tag", "/">>, <<"/", "page", "/">>,
      <<"/", "author", "/">>, <<"/", "wp-content", "/">>,
      <<"/", "wp-json", "/">>, <<"/", "wp-includes", "/">>,
      <<"/", "feed", "/">>, <<"/", "comments", "/">>, <<"#">> }

Denied(path) ==
    \/ path = <<>>
    \/ path = <<"/">>
    \/ \E k \in DeniedSubstrings : Contains(path, k)

\* C14: an anchor whose resolved URL has, after its host, nothing, only "/",
\* or a text containing a denylisted substring ("#" among them) contributes
\* no article: its URL is not among the articles extracted from the page.
C14_DeniedPathsExcluded ==
    /\ \A i \in 1..Len(pageLog) : \A j \in 1..Len(pageLog[i]) :
           ~Denied(pageLog[i][j].url.rest)
    /\ Parsed =>
           \A k \in 1..Len(html.anchors) :
               (~html.anchors[k].href.malformed
                  /\ Denied(UrlJoin(base_url, html.anchors[k].href).rest))
               => UrlJoin(base_url, html.anchors[k].href) \notin UrlSet(LastPage)

\* C15: once the user has interrupted the seed loop or the export step (the
\* for loop, a crawl, or save_data before or after the write), main has
\* returned 130 and no scrape_category call is running or will start; 130 is
\* returned for no other reason.
C15_InterruptExits130 ==
    /\ interruptedIn \in { "for", "scraping", "saving", "saved" } =>
           /\ mpc = "done" /\ exit_code = 130
           /\ cpc = "idle"
    /\ exit_code = 130 => interruptedIn \in { "for", "scraping", "saving", "saved" }

\* interrupted during the crawl of the first of two seeds: the second seed
\* was never crawled
C15_Witness ==
    /\ interruptedIn = "scraping"
    /\ Len(urls) = 2 /\ Len(crawled) = 1
    /\ exit_code = 130

\* b is u with its trailing slashes replaced by exactly one
IsNormalizedOf(b, u) ==
    LET n == Len(b.rest) IN
    /\ b.netloc = u.netloc
    /\ n >= 1 /\ b.rest[n] = "/"
    /\ n >= 2 => b.rest[n - 1] # "/"
    /\ n - 1 <= Len(u.rest)
    /\ SubSeq(u.rest, 1, n - 1) = SubSeq(b.rest, 1, n - 1)
    /\ \A i \in n..Len(u.rest) : u.rest[i] = "/"

PageDigits == <<"1", "2", "3", "4", "5", "6", "7", "8", "9">>

\* C16: the i-th fetch_page call of a crawl is for page i: the first target
\* is the seed with exactly one trailing slash, the target of page i > 1 is
\* that base followed by "page/i/"; the page counter follows the calls, and
\* no target is fetched by two calls.
C16_PagesInOrder ==
    mpc = "scraping" =>
        /\ IsNormalizedOf(base_url, CurrentSeed)
        /\ page = IF cpc \in { "loop", "delay" } THEN Len(fetched) + 1 ELSE Len(fetched)
        /\ \A i \in 1..Len(fetched) :
               fetched[i] = IF i = 1 THEN base_url
                            ELSE Url(base_url.netloc,
                                     base_url.rest \o <<"page", "/", PageDigits[i], "/">>)
        /\ \A i, j \in 1..Len(fetched) : i # j => fetched[i] # fetched[j]

\* three pages were fetched for the seed written with two trailing slashes
C16_Witness ==
    /\ mpc = "scraping" /\ cpc = "returned"
    /\ CurrentSeed.rest = <<"/", "tech", "/", "/">>
    /\ Len(fetched) = 3
    /\ fetched[1].rest = <<"/", "tech", "/">>
    /\ fetched[3].rest = <<"/", "tech", "/", "page", "/", "3", "/">>

\* C17: the seeds are crawled once each in the order given; a crawl that
\* raises leaves the accumulated articles as they were and the loop goes on
\* with the next seed; save_data is called once, after the last seed, in
\* every run that reached the seed loop and was not interrupted.
C17_SeedIsolation ==
    /\ [] ( /\ crawled = SubSeq(urls, 1, Len(crawled))
            /\ all_articles = FlattenSeeds(seedLog, Len(seedLog))
            /\ Len(seedLog) = idx - 1
            /\ interruptedIn = "" =>
                   Len(crawled) = IF mpc = "scraping" THEN idx ELSE idx - 1
            /\ Len(saveCalls) <= 1
            /\ saveCalls # <<>> =>
                   (crawled = urls /\ Len(seedLog) = Len(urls) /\ saveCalls[1] = all_articles)
            /\ (mpc = "done" /\ interruptedIn = "" /\ crawled # <<>>) =>
                   Len(saveCalls) = 1 )
    /\ [][ (cpc = "raised" /\ interruptedIn' = "") =>
               /\ all_articles' = all_articles
               /\ has_error'
               /\ idx' = idx + 1 /\ mpc' = "for" ]_vars

\* the crawl of the first seed raised, the second seed was crawled and its
\* articles were handed to save_data
C17_Witness ==
    /\ mpc = "done" /\ interruptedIn = ""
    /\ Len(seedLog) = 2
    /\ seedLog[1].raised
    /\ ~seedLog[2].raised /\ seedLog[2].articles # <<>>
    /\ saveCalls = <<seedLog[2].articles>>

\* C18: a crawl sleeps once, for the politeness delay, between the fetch
\* calls of consecutive pages, and does not sleep after the page that ends it.
C18_OneDelayBetweenPages ==
    mpc = "scraping" =>
        /\ Len(delays) = IF cpc = "loop" THEN Len(fetched) ELSE Len(fetched) - 1
        /\ \A i \in 1..Len(delays) : delays[i] = 1

\* three pages were fetched, with one sleep after the first and one after
\* the second
C18_Witness ==
    /\ mpc = "scraping" /\ cpc = "returned"
    /\ Len(fetched) = 3
    /\ delays = <<1, 1>>

\* C19: every scrape_category call starts at page 1 with an empty collected
\* list and an empty seen set; what it has seen and collected comes from its
\* own pages only, so the list it returns is determined by those pages,
\* whatever earlier seeds collected, and contains every URL they served.
C19_CrawlStateIsOwn ==
    /\ (mpc = "scraping" /\ fetched = <<>>) =>
           (cpc = "loop" /\ page = 1 /\ articles = <<>> /\ seen_urls = {})
    /\ mpc = "scraping" =>
           /\ seen_urls \subseteq SeenThrough(pageLog, Len(pageLog))
           /\ UrlSet(articles) = seen_urls
    /\ cpc = "returned" =>
           /\ IsFirstSeenOf(articles, Flatten(pageLog, StoredPages))
           /\ SeenThrough(pageLog, StoredPages) \subseteq UrlSet(articles)

\* the second seed served an article URL that the first seed had already
\* collected, and its crawl returns it too
C19_Witness ==
    /\ mpc = "scraping" /\ cpc = "returned"
    /\ Len(seedLog) = 1 /\ ~seedLog[1].raised
    /\ articles # <<>>
    /\ UrlSet(articles) \subseteq UrlSet(all_articles)

IsPrefix(s, t) == Len(s) <= Len(t) /\ SubSeq(t, 1, Len(s)) = s

\* the article URLs the site serves under the seed host
SiteArticleUrls == { Url("site", <<"/", "post1">>), Url("site", <<"/", "post2">>) }

\* C20: within a crawl the seen set never loses a URL and the collected list
\* only grows at its end; a loop iteration that goes on to the next page adds
\* a URL to the seen set; so the number of fetch_page calls is at most one
\* more than the number of URLs seen, and at most n + 1 on a site with n
\* article URLs.
C20_ProgressBound ==
    /\ [][ (mpc = "scraping" /\ mpc' = "scraping") =>
               /\ seen_urls \subseteq seen_urls'
               /\ IsPrefix(articles, articles')
               /\ page' # page =>
                      (page' = page + 1 /\ seen_urls' # seen_urls) ]_vars
    /\ [] ( mpc = "scraping" =>
               /\ seen_urls \subseteq SiteArticleUrls
               /\ Len(fetched) <= Cardinality(seen_urls) + 1
               /\ Len(fetched) <= Cardinality(SiteArticleUrls) + 1 )

\* both article URLs were found on pages 1 and 2 and the crawl ended on its
\* third fetch
C20_Witness ==
    /\ mpc = "scraping" /\ cpc = "returned"
    /\ seen_urls = SiteArticleUrls
    /\ Len(fetched) = 3

====
